---- MODULE Spec2Model ----
(***************************************************************************)
(* pypprof/yappi_profiler.py: YappiProfiler.profile and                    *)
(* YappiProfiler._convert_to_pprof, the conversion of yappi's per-function *)
(* and per-edge statistics into a pprof sample table.                      *)
(*                                                                         *)
(* Times.  yappi reports ttot and tsub as floats in seconds.  Here a time  *)
(* is an integer number of ticks, one tick being TickNum/TickDen           *)
(* nanoseconds, so that int((ttot - tsub) * 1e9) scales and truncates      *)
(* toward zero as the Python expression does on a value that is not a      *)
(* whole number of nanoseconds.                                            *)
(***************************************************************************)
EXTENDS Integers, Sequences, FiniteSets, TLC

VARIABLES
    stats,              \* _convert_to_pprof: the snapshot being converted
    clock_type,         \* self._clock_type of the converting profiler
    duration_ns,        \* the duration_ns argument
    pc,                 \* position inside _convert_to_pprof
    i,                  \* index of func_stat in the running for loop
    j,                  \* index of child_stat in func_stat.children
    samples,            \* trace -> <<count, value>>
    covered_self_time,  \* (name, module, lineno) -> covered self time in ns
    populated,          \* arguments of profile_builder.populate_profile, <<>> before the call
    stale,              \* an earlier conversion of this process built a non-empty table
    tpc,                \* per thread: position inside profile()
    lock,               \* _lock: the thread holding it, NoThread when free
    yappi_running,      \* yappi: started and not stopped
    yappi_clock,        \* yappi: the clock type set last
    yappi_session,      \* yappi: the thread whose clear_stats() began the current statistics
    yappi_stats,        \* yappi: the statistics recorded since the last clear_stats()
    self_clock,         \* per thread: self._clock_type of the profiler whose profile() it is in
    arg_duration,       \* per thread: the duration_ns argument of its call
    exc,                \* per thread: an exception of time.sleep is propagating
    tstats,             \* per thread: the local stats
    handed,             \* per thread: the arguments its call gave populate_profile
    hist,               \* per thread: what the current call has executed
    calls               \* the calls of profile() made so far

cvars == <<stats, clock_type, duration_ns, pc, i, j, samples, covered_self_time, populated,
           stale>>

tvars == <<tpc, lock, yappi_running, yappi_clock, yappi_session, yappi_stats, self_clock,
           arg_duration, exc, tstats, handed, hist, calls>>

vars == <<cvars, tvars>>

----------------------------------------------------------------------------
(* Bounds of the model *)

MaxWeight == 4      \* size of a snapshot: its child records plus every ttot, tsub and ncall
SeqWeight == 2      \* size of the snapshots of a sequence of conversions
TickNum == 3        \* one tick of ttot/tsub is TickNum/TickDen nanoseconds
TickDen == 2
Duration == 5       \* the duration_ns of a call
ProfWeight == 0     \* size of the snapshots yappi records in a session of profile()
NumThreads == 2     \* threads calling profile()
MaxCalls == 2       \* calls of profile() in one run

----------------------------------------------------------------------------
(* The input: yappi's YFuncStat / YChildFuncStat records *)

FuncA == <<"f", "m.py", 1>>
FuncB == <<"g", "m.py", 7>>
FuncIds == {FuncA, FuncB}

TimeFields(w) ==
    {x \in (0..w) \X (0..w) \X (0..w) : x[1] + x[2] + x[3] <= w}

ChildStat(id, x) ==
    [name |-> id[1], module |-> id[2], lineno |-> id[3],
     ttot |-> x[1], tsub |-> x[2], ncall |-> x[3]]

FuncStat(id, x, has, ch) ==
    [name |-> id[1], module |-> id[2], lineno |-> id[3],
     ttot |-> x[1], tsub |-> x[2], ncall |-> x[3],
     has_children |-> has, children |-> ch]

\* The size of a snapshot: one for each child record, plus the numbers in it.
StatWeight(s) == s.ttot + s.tsub + s.ncall

RECURSIVE ListWeight(_)
ListWeight(ch) ==
    IF ch = <<>> THEN 0 ELSE 1 + StatWeight(Head(ch)) + ListWeight(Tail(ch))

FuncWeight(fs) == StatWeight(fs) + ListWeight(fs.children)

ChildStats(w) ==
    IF w < 0 THEN {}
    ELSE {ChildStat(id, x) : id \in FuncIds, x \in TimeFields(w)}

RECURSIVE ChildLists(_, _)
ChildLists(n, w) ==
    IF n = 0 THEN {<<>>}
    ELSE LET prev == ChildLists(n - 1, w)
         IN  prev \cup UNION { {Append(p, e) : e \in ChildStats(w - ListWeight(p) - 1)} :
                               p \in {q \in prev : Len(q) = n - 1} }

FuncStats(id, w) ==
    UNION { {FuncStat(id, x, FALSE, <<>>)} \cup
            {FuncStat(id, x, TRUE, ch) :
                ch \in ChildLists(w, w - (x[1] + x[2] + x[3]))} :
            x \in TimeFields(w) }

\* FuncStatsOf[id][w]: the records of function id of weight at most w
FuncStatsOf == [id \in FuncIds |-> [w \in 0..MaxWeight |-> FuncStats(id, w)]]

\* s is a snapshot of weight at most w.  A snapshot lists each function at
\* most once (yappi keys its statistics by function), in either order.
IsSnapshot(s, w) ==
    \/ s = <<>>
    \/ \E id \in FuncIds : \E a \in FuncStatsOf[id][w] : s = <<a>>
    \/ \E a \in FuncStatsOf[FuncA][w] :
          \E b \in FuncStatsOf[FuncB][w - FuncWeight(a)] :
             \/ s = <<a, b>>
             \/ s = <<b, a>>

ClockTypes == {"cpu", "wall"}

----------------------------------------------------------------------------
(* _convert_to_pprof *)

make_frame(func_stat) ==
    <<func_stat.name, func_stat.module, func_stat.lineno, func_stat.lineno>>

StatKey(func_stat) == <<func_stat.name, func_stat.module, func_stat.lineno>>

\* int(x): truncation toward zero
TruncDiv(x, n) == IF x >= 0 THEN x \div n ELSE -((-x) \div n)

\* int((ttot - tsub) * 1e9)
ToNs(ticks) == TruncDiv(ticks * TickNum, TickDen)

\* SelfTimeNs without the "if self_time_ns < 0" clamp
SelfTimeNsNoClamp(stat) == ToNs(stat.ttot - stat.tsub)

\* self_time_ns and total_self_time_ns, with "if ... < 0: ... = 0"
SelfTimeNs(stat) ==
    LET ns == ToNs(stat.ttot - stat.tsub) IN IF ns < 0 THEN 0 ELSE ns

EmptySamples == [t \in {} |-> <<0, 0>>]
EmptyCovered == [k \in {} |-> 0]

\* NewSamples with the table kept from the call before (an accumulator that
\* outlives the call)
NewSamplesKeep(old) == old

\* samples = defaultdict(lambda: [0, 0]) at the top of the call
NewSamples(old) == EmptySamples

\* covered_self_time = defaultdict(int) at the top of the call
NewCovered(old) == EmptyCovered

\* samples[trace] of the defaultdict
SampleOf(smp, trace) == IF trace \in DOMAIN smp THEN smp[trace] ELSE <<0, 0>>

\* entry = samples[trace]; entry[0] += count; entry[1] += value
AddSample(smp, trace, count, value) ==
    [t \in DOMAIN smp \cup {trace} |->
        IF t = trace
        THEN <<SampleOf(smp, trace)[1] + count, SampleOf(smp, trace)[2] + value>>
        ELSE smp[t]]

\* AddCovered with "=" for "+="
AddCoveredOverwrite(cov, key, ns) ==
    [k \in DOMAIN cov \cup {key} |-> IF k = key THEN ns ELSE cov[k]]

\* covered_self_time[callee_key] += self_time_ns
AddCovered(cov, key, ns) ==
    [k \in DOMAIN cov \cup {key} |->
        IF k = key THEN (IF key \in DOMAIN cov THEN cov[key] ELSE 0) + ns ELSE cov[k]]

\* EdgeTrace with the caller first
EdgeTraceCallerFirst(func_stat, child_stat) ==
    <<make_frame(func_stat), make_frame(child_stat)>>

\* trace = (callee_frame, caller_frame)
EdgeTrace(func_stat, child_stat) == <<make_frame(child_stat), make_frame(func_stat)>>

\* one iteration of the inner loop of the first pass, on samples
EdgeSamples(smp, func_stat, child_stat) ==
    AddSample(smp, EdgeTrace(func_stat, child_stat), child_stat.ncall, SelfTimeNs(child_stat))

\* one iteration of the inner loop of the first pass, on covered_self_time
EdgeCovered(cov, child_stat) == AddCovered(cov, StatKey(child_stat), SelfTimeNs(child_stat))

\* covered_ns = covered_self_time.get(key, 0)
CoveredNs(cov, func_stat) ==
    IF StatKey(func_stat) \in DOMAIN cov THEN cov[StatKey(func_stat)] ELSE 0

\* RemainderNs without the subtraction of the covered time
RemainderNsNoCover(cov, func_stat) == SelfTimeNs(func_stat)

\* remainder_ns = total_self_time_ns - covered_ns
RemainderNs(cov, func_stat) == SelfTimeNs(func_stat) - CoveredNs(cov, func_stat)

\* RootEmits with ">=" for ">"
RootEmitsGe(cov, func_stat) ==
    \/ RemainderNs(cov, func_stat) >= 0
    \/ CoveredNs(cov, func_stat) = 0 /\ func_stat.ncall > 0

\* if remainder_ns > 0 or (covered_ns == 0 and func_stat.ncall > 0)
RootEmits(cov, func_stat) ==
    \/ RemainderNs(cov, func_stat) > 0
    \/ CoveredNs(cov, func_stat) = 0 /\ func_stat.ncall > 0

\* count = 0; if covered_ns == 0: count = func_stat.ncall
RootCount(cov, func_stat) ==
    IF CoveredNs(cov, func_stat) = 0 THEN func_stat.ncall ELSE 0

\* trace = (frame,)
RootTrace(func_stat) == <<make_frame(func_stat)>>

\* one iteration of the second pass
RootSamples(smp, cov, func_stat) ==
    IF RootEmits(cov, func_stat)
    THEN AddSample(smp, RootTrace(func_stat), RootCount(cov, func_stat),
                   RemainderNs(cov, func_stat))
    ELSE smp

\* profile_type = 'CPU' if self._clock_type == 'cpu' else 'WALL'
ProfileType(clock) == IF clock = "cpu" THEN "CPU" ELSE "WALL"

\* profile_builder.populate_profile(final_samples, profile_type, 'count', 1, duration_ns)
PopulateArgs(smp, clock, duration) == <<smp, ProfileType(clock), "count", 1, duration>>

(* The whole conversion, as profile() calls it *)

RECURSIVE ChildrenPass(_, _, _)
\* for child_stat in func_stat.children: ...
ChildrenPass(acc, func_stat, children) ==
    IF children = <<>> THEN acc
    ELSE ChildrenPass([samples |-> EdgeSamples(acc.samples, func_stat, Head(children)),
                       covered |-> EdgeCovered(acc.covered, Head(children))],
                      func_stat, Tail(children))

RECURSIVE EdgePass(_, _)
\* first pass: for func_stat in stats: ...
EdgePass(acc, st) ==
    IF st = <<>> THEN acc
    ELSE EdgePass(IF Head(st).has_children
                  THEN ChildrenPass(acc, Head(st), Head(st).children)
                  ELSE acc,
                  Tail(st))

RECURSIVE RootPass(_, _, _)
\* second pass: for func_stat in stats: ...
RootPass(smp, cov, st) ==
    IF st = <<>> THEN smp
    ELSE RootPass(RootSamples(smp, cov, Head(st)), cov, Tail(st))

\* final_samples of _convert_to_pprof(st, ...)
FinalSamples(st) ==
    LET acc == EdgePass([samples |-> NewSamples(EmptySamples),
                         covered |-> NewCovered(EmptyCovered)], st)
    IN  RootPass(acc.samples, acc.covered, st)

\* _convert_to_pprof(st, duration) of a profiler with self._clock_type = clock
ConvertToPprof(st, clock, duration) == PopulateArgs(FinalSamples(st), clock, duration)

----------------------------------------------------------------------------
(* profile(): the lock and the control flow *)

NoThread == 0
Threads == 1..NumThreads
Durations == {Duration}
NoHist == [started |-> FALSE, stopped |-> FALSE, collected |-> FALSE]

\* CanAcquire of a lock that each profiler would own
CanAcquireAlways(l) == TRUE

\* _lock = threading.Lock(), one for the module: free when nobody holds it
CanAcquire(l) == l = NoThread

\* AfterSleep without the try/finally
AfterSleepNoFinally(raised) == IF raised THEN "release" ELSE "stop2"

\* try: time.sleep(...) finally: the finally block runs whether sleep raised or not
AfterSleep(raised) == "stop2"

\* the end of the finally block: a propagating exception leaves the with block,
\* otherwise line 26 runs
AfterCollect(raised) == IF raised THEN "release" ELSE "convert"

\* the exit of "with _lock" releases the lock, on return and on exception
LockAfterExit(l, raised) == NoThread

----------------------------------------------------------------------------
(* The steps of one conversion *)

\* lines 29-34: the local accumulators
Begin ==
    /\ pc = "begin"
    /\ samples' = NewSamples(samples)
    /\ covered_self_time' = NewCovered(covered_self_time)
    /\ pc' = "edge"
    /\ i' = 1
    /\ j' = 1
    /\ UNCHANGED <<stats, clock_type, duration_ns, populated, stale, tvars>>

\* if not hasattr(func_stat, 'children'): continue
EdgeSkip ==
    /\ pc = "edge"
    /\ i <= Len(stats)
    /\ ~stats[i].has_children
    /\ i' = i + 1
    /\ j' = 1
    /\ UNCHANGED <<stats, clock_type, duration_ns, pc, samples, covered_self_time, populated, stale, tvars>>

\* the body of "for child_stat in func_stat.children"
EdgeStep ==
    /\ pc = "edge"
    /\ i <= Len(stats)
    /\ stats[i].has_children
    /\ j <= Len(stats[i].children)
    /\ samples' = EdgeSamples(samples, stats[i], stats[i].children[j])
    /\ covered_self_time' = EdgeCovered(covered_self_time, stats[i].children[j])
    /\ j' = j + 1
    /\ UNCHANGED <<stats, clock_type, duration_ns, pc, i, populated, stale, tvars>>

\* func_stat.children is exhausted: next func_stat
EdgeNextFunc ==
    /\ pc = "edge"
    /\ i <= Len(stats)
    /\ stats[i].has_children
    /\ j > Len(stats[i].children)
    /\ i' = i + 1
    /\ j' = 1
    /\ UNCHANGED <<stats, clock_type, duration_ns, pc, samples, covered_self_time, populated, stale, tvars>>

\* the first "for func_stat in stats" is exhausted
EdgeDone ==
    /\ pc = "edge"
    /\ i > Len(stats)
    /\ pc' = "root"
    /\ i' = 1
    /\ UNCHANGED <<stats, clock_type, duration_ns, j, samples, covered_self_time, populated, stale, tvars>>

\* the body of the second "for func_stat in stats"
RootStep ==
    /\ pc = "root"
    /\ i <= Len(stats)
    /\ samples' = RootSamples(samples, covered_self_time, stats[i])
    /\ i' = i + 1
    /\ UNCHANGED <<stats, clock_type, duration_ns, pc, j, covered_self_time, populated, stale, tvars>>

\* the second loop is exhausted
RootDone ==
    /\ pc = "root"
    /\ i > Len(stats)
    /\ pc' = "populate"
    /\ UNCHANGED <<stats, clock_type, duration_ns, i, j, samples, covered_self_time, populated, stale, tvars>>

\* final_samples, profile_type, populate_profile(...)
Populate ==
    /\ pc = "populate"
    /\ populated' = PopulateArgs(samples, clock_type, duration_ns)
    /\ pc' = "done"
    /\ UNCHANGED <<stats, clock_type, duration_ns, i, j, samples, covered_self_time, stale, tvars>>

Convert ==
    \/ Begin
    \/ EdgeSkip
    \/ EdgeStep
    \/ EdgeNextFunc
    \/ EdgeDone
    \/ RootStep
    \/ RootDone
    \/ Populate

\* No thread is inside profile(): the state of the module after import.
NoProfile ==
    /\ tpc = [t \in Threads |-> "idle"]
    /\ lock = NoThread
    /\ yappi_running = FALSE
    /\ yappi_clock = "cpu"
    /\ yappi_session = NoThread
    /\ yappi_stats = <<>>
    /\ self_clock = [t \in Threads |-> "cpu"]
    /\ arg_duration = [t \in Threads |-> 0]
    /\ exc = [t \in Threads |-> FALSE]
    /\ tstats = [t \in Threads |-> <<>>]
    /\ handed = [t \in Threads |-> <<>>]
    /\ hist = [t \in Threads |-> NoHist]
    /\ calls = 0

\* One call of _convert_to_pprof on any snapshot, by YappiProfiler() with the
\* default clock_type.
Init ==
    /\ IsSnapshot(stats, MaxWeight)
    /\ clock_type = "cpu"
    /\ duration_ns = Duration
    /\ pc = "begin"
    /\ i = 1
    /\ j = 1
    /\ samples = EmptySamples
    /\ covered_self_time = EmptyCovered
    /\ populated = <<>>
    /\ stale = FALSE
    /\ NoProfile

Next == Convert

Spec == Init /\ [][Next]_vars

----------------------------------------------------------------------------
(* A sequence of conversions *)

\* the next call of _convert_to_pprof, up to its local accumulators (lines 28-34)
NextCall ==
    /\ pc = "done"
    /\ IsSnapshot(stats', SeqWeight)
    /\ samples' = NewSamples(samples)
    /\ covered_self_time' = NewCovered(covered_self_time)
    /\ populated' = <<>>
    /\ pc' = "edge"
    /\ i' = 1
    /\ j' = 1
    /\ stale' = (stale \/ DOMAIN samples # {})
    /\ UNCHANGED <<clock_type, duration_ns, tvars>>

InitSeq ==
    /\ IsSnapshot(stats, SeqWeight)
    /\ clock_type = "cpu"
    /\ duration_ns = Duration
    /\ pc = "begin"
    /\ i = 1
    /\ j = 1
    /\ samples = EmptySamples
    /\ covered_self_time = EmptyCovered
    /\ populated = <<>>
    /\ stale = FALSE
    /\ NoProfile

NextSeq == Convert \/ NextCall

SpecSeq == InitSeq /\ [][NextSeq]_vars

----------------------------------------------------------------------------
(* profile(): threads calling it on their own YappiProfiler *)

\* a thread calls profile(duration_ns) of a profiler of some clock type
Call(t) ==
    /\ tpc[t] = "idle"
    /\ calls < MaxCalls
    /\ \E c \in ClockTypes : self_clock' = [self_clock EXCEPT ![t] = c]
    /\ \E d \in Durations : arg_duration' = [arg_duration EXCEPT ![t] = d]
    /\ calls' = calls + 1
    /\ tpc' = [tpc EXCEPT ![t] = "acquire"]
    /\ UNCHANGED <<cvars, lock, yappi_running, yappi_clock, yappi_session, yappi_stats,
                   exc, tstats, handed, hist>>

\* with _lock: (entry)
Acquire(t) ==
    /\ tpc[t] = "acquire"
    /\ CanAcquire(lock)
    /\ lock' = t
    /\ tpc' = [tpc EXCEPT ![t] = "stop1"]
    /\ UNCHANGED <<cvars, yappi_running, yappi_clock, yappi_session, yappi_stats, self_clock,
                   arg_duration, exc, tstats, handed, hist, calls>>

\* yappi.stop()   (line 16)
Stop1(t) ==
    /\ tpc[t] = "stop1"
    /\ yappi_running' = FALSE
    /\ tpc' = [tpc EXCEPT ![t] = "clear"]
    /\ UNCHANGED <<cvars, lock, yappi_clock, yappi_session, yappi_stats, self_clock,
                   arg_duration, exc, tstats, handed, hist, calls>>

\* yappi.clear_stats()
Clear(t) ==
    /\ tpc[t] = "clear"
    /\ yappi_stats' = <<>>
    /\ yappi_session' = t
    /\ tpc' = [tpc EXCEPT ![t] = "setclock"]
    /\ UNCHANGED <<cvars, lock, yappi_running, yappi_clock, self_clock,
                   arg_duration, exc, tstats, handed, hist, calls>>

\* yappi.set_clock_type(self._clock_type)
SetClock(t) ==
    /\ tpc[t] = "setclock"
    /\ yappi_clock' = self_clock[t]
    /\ tpc' = [tpc EXCEPT ![t] = "start"]
    /\ UNCHANGED <<cvars, lock, yappi_running, yappi_session, yappi_stats, self_clock,
                   arg_duration, exc, tstats, handed, hist, calls>>

\* yappi.start()
Start(t) ==
    /\ tpc[t] = "start"
    /\ yappi_running' = TRUE
    /\ hist' = [hist EXCEPT ![t] = [started |-> TRUE, stopped |-> FALSE, collected |-> FALSE]]
    /\ tpc' = [tpc EXCEPT ![t] = "sleep"]
    /\ UNCHANGED <<cvars, lock, yappi_clock, yappi_session, yappi_stats, self_clock,
                   arg_duration, exc, tstats, handed, calls>>

\* yappi, while running, records the calls of the program
Record ==
    /\ yappi_running
    /\ yappi_stats = <<>>
    /\ IsSnapshot(yappi_stats', ProfWeight)
    /\ yappi_stats' # <<>>
    /\ UNCHANGED <<cvars, tpc, lock, yappi_running, yappi_clock, yappi_session, self_clock,
                   arg_duration, exc, tstats, handed, hist, calls>>

\* time.sleep(duration_ns / 1e9) returns
SleepReturns(t) ==
    /\ tpc[t] = "sleep"
    /\ arg_duration[t] >= 0
    /\ tpc' = [tpc EXCEPT ![t] = AfterSleep(FALSE)]
    /\ UNCHANGED <<cvars, lock, yappi_running, yappi_clock, yappi_session, yappi_stats,
                   self_clock, arg_duration, exc, tstats, handed, hist, calls>>

\* time.sleep raises (an exception that interrupts the sleep, or its ValueError)
SleepRaises(t) ==
    /\ tpc[t] = "sleep"
    /\ exc' = [exc EXCEPT ![t] = TRUE]
    /\ tpc' = [tpc EXCEPT ![t] = AfterSleep(TRUE)]
    /\ UNCHANGED <<cvars, lock, yappi_running, yappi_clock, yappi_session, yappi_stats,
                   self_clock, arg_duration, tstats, handed, hist, calls>>

\* finally: yappi.stop()   (line 23)
Stop2(t) ==
    /\ tpc[t] = "stop2"
    /\ yappi_running' = FALSE
    /\ hist' = [hist EXCEPT ![t].stopped = TRUE]
    /\ tpc' = [tpc EXCEPT ![t] = "collect"]
    /\ UNCHANGED <<cvars, lock, yappi_clock, yappi_session, yappi_stats, self_clock,
                   arg_duration, exc, tstats, handed, calls>>

\* finally: stats = yappi.get_func_stats(); then the exception, if any, goes on
Collect(t) ==
    /\ tpc[t] = "collect"
    /\ tstats' = [tstats EXCEPT ![t] = yappi_stats]
    /\ hist' = [hist EXCEPT ![t].collected = TRUE]
    /\ tpc' = [tpc EXCEPT ![t] = AfterCollect(exc[t])]
    /\ UNCHANGED <<cvars, lock, yappi_running, yappi_clock, yappi_session, yappi_stats,
                   self_clock, arg_duration, exc, handed, calls>>

\* return self._convert_to_pprof(stats, duration_ns)
ConvertCall(t) ==
    /\ tpc[t] = "convert"
    /\ handed' = [handed EXCEPT ![t] =
                     ConvertToPprof(tstats[t], self_clock[t], arg_duration[t])]
    /\ tpc' = [tpc EXCEPT ![t] = "release"]
    /\ UNCHANGED <<cvars, lock, yappi_running, yappi_clock, yappi_session, yappi_stats,
                   self_clock, arg_duration, exc, tstats, hist, calls>>

\* with _lock: (exit, by return or by exception); the frame of the call and its
\* locals are gone
Release(t) ==
    /\ tpc[t] = "release"
    /\ lock' = LockAfterExit(lock, exc[t])
    /\ tpc' = [tpc EXCEPT ![t] = "idle"]
    /\ self_clock' = [self_clock EXCEPT ![t] = "cpu"]
    /\ arg_duration' = [arg_duration EXCEPT ![t] = 0]
    /\ exc' = [exc EXCEPT ![t] = FALSE]
    /\ tstats' = [tstats EXCEPT ![t] = <<>>]
    /\ handed' = [handed EXCEPT ![t] = <<>>]
    /\ hist' = [hist EXCEPT ![t] = NoHist]
    /\ UNCHANGED <<cvars, yappi_running, yappi_clock, yappi_session, yappi_stats, calls>>

ThreadStep(t) ==
    \/ Acquire(t)
    \/ Stop1(t)
    \/ Clear(t)
    \/ SetClock(t)
    \/ Start(t)
    \/ SleepReturns(t)
    \/ SleepRaises(t)
    \/ Stop2(t)
    \/ Collect(t)
    \/ ConvertCall(t)
    \/ Release(t)

InitProfile ==
    /\ stats = <<>>
    /\ clock_type = "cpu"
    /\ duration_ns = Duration
    /\ pc = "off"
    /\ i = 1
    /\ j = 1
    /\ samples = EmptySamples
    /\ covered_self_time = EmptyCovered
    /\ populated = <<>>
    /\ stale = FALSE
    /\ NoProfile

NextProfile ==
    \/ \E t \in Threads : Call(t)
    \/ \E t \in Threads : Acquire(t)
    \/ \E t \in Threads : Stop1(t)
    \/ \E t \in Threads : Clear(t)
    \/ \E t \in Threads : SetClock(t)
    \/ \E t \in Threads : Start(t)
    \/ Record
    \/ \E t \in Threads : SleepReturns(t)
    \/ \E t \in Threads : SleepRaises(t)
    \/ \E t \in Threads : Stop2(t)
    \/ \E t \in Threads : Collect(t)
    \/ \E t \in Threads : ConvertCall(t)
    \/ \E t \in Threads : Release(t)

SpecProfile == InitProfile /\ [][NextProfile]_vars

\* Every thread inside profile() keeps running: the scheduler runs a runnable
\* thread, time.sleep ends, and a free lock is given to a waiting thread.
FairProfile == SpecProfile /\ \A t \in Threads : WF_vars(ThreadStep(t))

----------------------------------------------------------------------------
(* Properties *)

RECURSIVE SumFn(_, _)
\* the sum of f over the finite set S
SumFn(f, S) ==
    IF S = {} THEN 0
    ELSE LET x == CHOOSE y \in S : TRUE IN f[x] + SumFn(f, S \ {x})

\* both passes of the conversion are over
Finished == pc \in {"populate", "done"}

\* max(0, nanoseconds(F.totalTime - F.subTime))
ClampedNs(F) == IF ToNs(F.ttot - F.tsub) > 0 THEN ToNs(F.ttot - F.tsub) ELSE 0

\* the two-frame traces of the table whose index-0 frame is Frame(F)
LeafTraces(F) == {tr \in DOMAIN samples : Len(tr) = 2 /\ tr[1] = make_frame(F)}

\* the sum of the values of the two-frame samples whose leaf is F
LeafValue(F) == SumFn([tr \in LeafTraces(F) |-> samples[tr][2]], LeafTraces(F))

\* the value of the one-frame sample of F, 0 when absent
RootValue(F) ==
    IF <<make_frame(F)>> \in DOMAIN samples THEN samples[<<make_frame(F)>>][2] ELSE 0

\* the (caller index, child index) pairs of a snapshot
EdgeIdx(st) ==
    UNION { {<<n, m>> : m \in 1..Len(st[n].children)} :
            n \in {k \in 1..Len(st) : st[k].has_children} }

\* C1 as stated: for every FunctionStat F, edge samples with leaf F plus the
\* root sample of F add up to max(0, ns(F.totalTime - F.subTime)), whatever the
\* edges' times are.
C1_Conservation ==
    Finished =>
        \A n \in 1..Len(stats) :
            LeafValue(stats[n]) + RootValue(stats[n]) = ClampedNs(stats[n])

\* C1 amended: the edge samples with leaf F plus the root sample of F add up to
\* max(0, ns(F.totalTime - F.subTime)) when the edge samples with leaf F do not
\* exceed it; when they do, F has no positive root value and the total is the
\* edge samples' sum.
C1_ConservationUpToCoverage ==
    Finished =>
        \A n \in 1..Len(stats) :
            IF LeafValue(stats[n]) <= ClampedNs(stats[n])
            THEN LeafValue(stats[n]) + RootValue(stats[n]) = ClampedNs(stats[n])
            ELSE RootValue(stats[n]) = 0

\* a function partly covered by an edge got the rest as a root sample
C1_Witness ==
    /\ Finished
    /\ \E n \in 1..Len(stats) :
          /\ LeafValue(stats[n]) > 0
          /\ RootValue(stats[n]) > 0
          /\ LeafValue(stats[n]) + RootValue(stats[n]) = ClampedNs(stats[n])

\* the sum of count over all samples of the table
TotalCount == SumFn([tr \in DOMAIN samples |-> samples[tr][1]], DOMAIN samples)

\* the sum of invocationCount over all FunctionStat records
TotalNcall == SumFn([n \in 1..Len(stats) |-> stats[n].ncall], 1..Len(stats))

\* the edges of the snapshot whose callee is F
EdgesInto(F) == {e \in EdgeIdx(stats) : StatKey(stats[e[1]].children[e[2]]) = StatKey(F)}

\* every callee is a FunctionStat, and each function was invoked at least as
\* often as its incoming edges say
CountsConsistent ==
    /\ \A e \in EdgeIdx(stats) :
          \E n \in 1..Len(stats) : StatKey(stats[n]) = StatKey(stats[e[1]].children[e[2]])
    /\ \A n \in 1..Len(stats) :
          stats[n].ncall >=
              SumFn([e \in EdgesInto(stats[n]) |-> stats[e[1]].children[e[2]].ncall],
                    EdgesInto(stats[n]))

\* C2 as stated: on a snapshot with consistent counts the counts of the final
\* table do not exceed the invocation counts of the input, and a function that
\* is the callee of an edge gets no count from the root pass.
C2_CountNonInflation ==
    (Finished /\ CountsConsistent) =>
        /\ TotalCount <= TotalNcall
        /\ \A n \in 1..Len(stats) :
              (EdgesInto(stats[n]) # {} /\ <<make_frame(stats[n])>> \in DOMAIN samples)
                  => samples[<<make_frame(stats[n])>>][1] = 0

\* C3: at every point of the conversion every sample has count >= 0 and
\* value >= 0 and every covered self time is >= 0 (the input's invocation
\* counts being non-negative).
C3_NoNegativeValues ==
    /\ \A tr \in DOMAIN samples : samples[tr][1] >= 0 /\ samples[tr][2] >= 0
    /\ \A k \in DOMAIN covered_self_time : covered_self_time[k] >= 0

\* an edge and a function with ttot < tsub have been through both passes, and
\* a function's remainder was negative
C3_Witness ==
    /\ Finished
    /\ \E e \in EdgeIdx(stats) :
          ToNs(stats[e[1]].children[e[2]].ttot - stats[e[1]].children[e[2]].tsub) < 0
    /\ \E n \in 1..Len(stats) :
          \/ ToNs(stats[n].ttot - stats[n].tsub) < 0
          \/ LeafValue(stats[n]) > ClampedNs(stats[n])

\* C4 as stated: populate_profile is handed kind CPU for clock cpu and WALL
\* otherwise, unit nanoseconds, period 1 and the call's duration_ns.
C4_Metadata ==
    \A t \in Threads :
        Len(handed[t]) = 5 =>
            /\ handed[t][2] = (IF self_clock[t] = "cpu" THEN "CPU" ELSE "WALL")
            /\ handed[t][3] = "nanoseconds"
            /\ handed[t][4] = 1
            /\ handed[t][5] = arg_duration[t]

\* C5: every key of the table is (Frame(F),) for a FunctionStat F, or
\* (Frame(E), Frame(F)) for an edge E of F.children, callee first.
C5_TraceShapes ==
    \A tr \in DOMAIN samples :
        \/ /\ Len(tr) = 1
           /\ \E n \in 1..Len(stats) : tr[1] = make_frame(stats[n])
        \/ /\ Len(tr) = 2
           /\ \E e \in EdgeIdx(stats) :
                 /\ tr[1] = make_frame(stats[e[1]].children[e[2]])
                 /\ tr[2] = make_frame(stats[e[1]])

\* the final table holds a root trace and an edge trace between two functions
C5_Witness ==
    /\ Finished
    /\ \E tr \in DOMAIN samples : Len(tr) = 1
    /\ \E tr \in DOMAIN samples : Len(tr) = 2 /\ tr[1] # tr[2]

\* critical section of profile(): from the first yappi.stop() to the end of the conversion
InSession(t) ==
    tpc[t] \in {"stop1", "clear", "setclock", "start", "sleep", "stop2", "collect", "convert"}

\* C6: at most one call is between its first yappi.stop() and the end of its
\* conversion; during a call's window and collection yappi is in the state
\* that call gave it.
C6_SessionExclusive ==
    /\ \A t, u \in Threads : (t # u /\ InSession(t)) => ~InSession(u)
    /\ \A t \in Threads :
          /\ tpc[t] \in {"start", "sleep", "stop2", "collect"}
                => yappi_session = t /\ yappi_clock = self_clock[t]
          /\ tpc[t] = "sleep" => yappi_running
          /\ tpc[t] = "collect" => ~yappi_running
          /\ tpc[t] = "convert" => tstats[t] = yappi_stats

\* a thread is in its window while another waits for the lock
C6_Witness ==
    \E t, u \in Threads : t # u /\ tpc[t] = "sleep" /\ tpc[u] = "acquire"

\* what C7 says of every state: a call that started the profiler has stopped
\* it and collected the statistics before it converts and before it exits,
\* and holds no lock once it is out
C7_TeardownDone ==
    \A t \in Threads :
        /\ (tpc[t] \in {"convert", "release"} /\ hist[t].started)
              => hist[t].stopped /\ hist[t].collected
        /\ tpc[t] \in {"idle", "acquire"} => lock # t
        /\ (tpc[t] = "release" /\ ~exc[t]) => Len(handed[t]) = 5

\* C7: stop and collection run before conversion and before exit, whether or
\* not the window raised; the lock is released on every exit, and every call
\* waiting for it gets it.
C7_GuaranteedTeardown ==
    /\ []C7_TeardownDone
    /\ \A t \in Threads : (tpc[t] = "acquire") ~> (tpc[t] = "stop1")

\* a call whose window raised is about to leave while another call waits
C7_Witness ==
    \E t, u \in Threads :
        /\ t # u
        /\ tpc[t] = "release" /\ exc[t] /\ hist[t].started
        /\ tpc[u] = "acquire"

\* the records of the snapshot that the root pass has been through
RootProcessed ==
    IF pc = "root" THEN 1..(i - 1) ELSE IF Finished THEN 1..Len(stats) ELSE {}

\* the CoverageMap value of F, 0 when absent
CoveredOf(F) ==
    IF <<F.name, F.module, F.lineno>> \in DOMAIN covered_self_time
    THEN covered_self_time[<<F.name, F.module, F.lineno>>] ELSE 0

\* C8: the root pass leaves (count, remainderNs) under (Frame(F),) iff
\* remainderNs > 0 or (coveredNs = 0 and F.invocationCount > 0), with count
\* F.invocationCount when coveredNs = 0 and 0 otherwise; no entry otherwise.
C8_RootContribution ==
    \A n \in RootProcessed :
        LET F == stats[n]
            coveredNs == CoveredOf(F)
            remainderNs == ClampedNs(F) - coveredNs
        IN  IF remainderNs > 0 \/ (coveredNs = 0 /\ F.ncall > 0)
            THEN /\ <<make_frame(F)>> \in DOMAIN samples
                 /\ samples[<<make_frame(F)>>] =
                        <<IF coveredNs = 0 THEN F.ncall ELSE 0, remainderNs>>
            ELSE <<make_frame(F)>> \notin DOMAIN samples

\* a partly covered function got a root sample of count 0 with its remainder
C8_Witness ==
    /\ Finished
    /\ \E n \in 1..Len(stats) :
          /\ CoveredOf(stats[n]) > 0
          /\ <<make_frame(stats[n])>> \in DOMAIN samples
          /\ samples[<<make_frame(stats[n])>>][1] = 0
          /\ samples[<<make_frame(stats[n])>>][2] > 0

\* C9: a conversion, whatever conversions came before it, ends with the table
\* and the populate_profile arguments of a conversion of its own snapshot
\* started from nothing, and starts its edge pass with empty accumulators.
C9_Stateless ==
    /\ (pc = "edge" /\ i = 1 /\ j = 1)
          => DOMAIN samples = {} /\ DOMAIN covered_self_time = {}
    /\ Finished => samples = FinalSamples(stats)
    /\ pc = "done" => populated = ConvertToPprof(stats, clock_type, duration_ns)

\* a conversion that follows one with a non-empty table has finished with a
\* non-empty table
C9_Witness == pc = "done" /\ stale /\ DOMAIN samples # {}

RECURSIVE Perms(_)
\* the permutations of a sequence
Perms(seq) ==
    IF seq = <<>> THEN {<<>>}
    ELSE UNION { {<<seq[k]>> \o p :
                     p \in Perms(SubSeq(seq, 1, k - 1) \o SubSeq(seq, k + 1, Len(seq)))} :
                 k \in 1..Len(seq) }

RECURSIVE ChildOrders(_)
\* the records of st in their order, the children of each in any order
ChildOrders(st) ==
    IF st = <<>> THEN {<<>>}
    ELSE {<<[Head(st) EXCEPT !.children = c]>> \o rest :
             c \in Perms(Head(st).children), rest \in ChildOrders(Tail(st))}

\* the snapshots with the records of st in any order and the children of each
\* record in any order
Reorderings(st) == UNION {ChildOrders(p) : p \in Perms(st)}

\* C10: the final table is the table of the conversion of every reordering of
\* the snapshot's records and of their children.
C10_OrderIndependent ==
    Finished => \A st \in Reorderings(stats) : FinalSamples(st) = samples

\* a record with two different edges into the same callee, in a snapshot of
\* two records, has been converted
C10_Witness ==
    /\ Finished
    /\ Len(stats) = 2
    /\ \E n \in 1..Len(stats) :
          /\ Len(stats[n].children) = 2
          /\ stats[n].children[1] # stats[n].children[2]
          /\ StatKey(stats[n].children[1]) = StatKey(stats[n].children[2])
          /\ samples[EdgeTrace(stats[n], stats[n].children[1])][2] > 0

====
